---- MODULE Spec2Model ----
(***************************************************************************)
(* Model of gpt.py: generate_script, get_search_terms, generate_metadata.  *)
(* Strings are sequences of one-character strings.  The completion backend *)
(* (g4f.ChatCompletion.create) is an opaque call that either returns a     *)
(* string or raises.                                                       *)
(***************************************************************************)
EXTENDS Integers, Sequences, FiniteSets, TLC

VARIABLES fn, pc, args, requests, responses, fallback, title, description, ret

vars == <<fn, pc, args, requests, responses, fallback, title, description, ret>>

(***************************************************************************)
(* Bounds of the input sets.                                               *)
(***************************************************************************)
MaxScriptLen == 5
MaxTermPieces == 4
MaxTitlePieces == 3
MaxDescPieces == 2
MaxAmount == 2

(***************************************************************************)
(* Strings.                                                                *)
(***************************************************************************)
RECURSIVE Flatten(_)
Flatten(ps) == IF ps = <<>> THEN <<>> ELSE Head(ps) \o Flatten(Tail(ps))

PieceSeqs(P, n) == UNION {[1..k -> P] : k \in 0..n}

Strings(P, n) == {Flatten(ps) : ps \in PieceSeqs(P, n)}

Has(s, c) == \E i \in 1..Len(s) : s[i] = c

\* Python str.isspace for the characters of the model
Whitespace == {" ", "\n"}

(***************************************************************************)
(* Python values: None, str, int, list, dict, tuple.                       *)
(***************************************************************************)
PyNone == [t |-> "none", s |-> <<>>, n |-> 0, items |-> <<>>, members |-> <<>>]
PyStr(s) == [t |-> "str", s |-> s, n |-> 0, items |-> <<>>, members |-> <<>>]
PyInt(n) == [t |-> "int", s |-> <<>>, n |-> n, items |-> <<>>, members |-> <<>>]
PyList(items) == [t |-> "list", s |-> <<>>, n |-> 0, items |-> items, members |-> <<>>]
PyDict(members) == [t |-> "dict", s |-> <<>>, n |-> 0, items |-> <<>>, members |-> members]
PyTuple(items) == [t |-> "tuple", s |-> <<>>, n |-> 0, items |-> items, members |-> <<>>]

\* dict[key] = value: an existing key keeps its position and takes the value
DictSet(members, k, v) ==
    IF \E i \in 1..Len(members) : members[i].k = k
    THEN [i \in 1..Len(members) |->
            IF members[i].k = k THEN [k |-> k, v |-> v] ELSE members[i]]
    ELSE Append(members, [k |-> k, v |-> v])

(***************************************************************************)
(* json.loads on a str: the decoder of the json module, over the           *)
(* characters of the model ([ ] { } : , " digits whitespace letters).      *)
(***************************************************************************)
Digits == {"1"}
DigitVal(c) == IF c = "1" THEN 1 ELSE 0

JsonFail == [ok |-> FALSE, v |-> PyNone, end |-> 0]
JsonOk(v, end) == [ok |-> TRUE, v |-> v, end |-> end]

RECURSIVE SkipWS(_, _)
SkipWS(s, i) == IF i <= Len(s) /\ s[i] \in Whitespace THEN SkipWS(s, i + 1) ELSE i

At(s, i) == IF i >= 1 /\ i <= Len(s) THEN s[i] ELSE ""

\* scanstring(s, i): i is the index after the opening quote (strict mode)
RECURSIVE ScanString(_, _, _)
ScanString(s, i, acc) ==
    IF i > Len(s) THEN JsonFail
    ELSE IF s[i] = "\"" THEN JsonOk(PyStr(acc), i + 1)
    ELSE IF s[i] = "\n" THEN JsonFail
    ELSE ScanString(s, i + 1, Append(acc, s[i]))

RECURSIVE ScanNumber(_, _, _)
ScanNumber(s, i, acc) ==
    IF At(s, i) \in Digits THEN ScanNumber(s, i + 1, 10 * acc + DigitVal(s[i]))
    ELSE JsonOk(PyInt(acc), i)

RECURSIVE ScanOnce(_, _), ArrayItems(_, _, _), ObjectMembers(_, _, _)
\* JSONArray: i is the index after '['
JSONArray(s, i) ==
    LET j == SkipWS(s, i)
    IN IF At(s, j) = "]" THEN JsonOk(PyList(<<>>), j + 1)
       ELSE ArrayItems(s, j, <<>>)

\* ArrayItems that forgets the values before the last one
RECURSIVE ArrayItemsKeepLast(_, _, _)
ArrayItemsKeepLast(s, i, acc) ==
    LET r == ScanOnce(s, i)
    IN IF ~r.ok THEN JsonFail
       ELSE LET e == SkipWS(s, r.end)
                vals == <<r.v>>
            IN IF At(s, e) = "]" THEN JsonOk(PyList(vals), e + 1)
               ELSE IF At(s, e) = "," THEN ArrayItemsKeepLast(s, SkipWS(s, e + 1), vals)
               ELSE JsonFail

ArrayItems(s, i, acc) ==
    LET r == ScanOnce(s, i)
    IN IF ~r.ok THEN JsonFail
       ELSE LET e == SkipWS(s, r.end)
                vals == Append(acc, r.v)
            IN IF At(s, e) = "]" THEN JsonOk(PyList(vals), e + 1)
               ELSE IF At(s, e) = "," THEN ArrayItems(s, SkipWS(s, e + 1), vals)
               ELSE JsonFail

\* JSONObject: i is the index after '{'
JSONObject(s, i) ==
    LET j == SkipWS(s, i)
    IN IF At(s, j) = "}" THEN JsonOk(PyDict(<<>>), j + 1)
       ELSE ObjectMembers(s, j, <<>>)

ObjectMembers(s, i, acc) ==
    IF At(s, i) # "\"" THEN JsonFail
    ELSE LET key == ScanString(s, i + 1, <<>>)
         IN IF ~key.ok THEN JsonFail
            ELSE LET c == SkipWS(s, key.end)
                 IN IF At(s, c) # ":" THEN JsonFail
                    ELSE LET r == ScanOnce(s, SkipWS(s, c + 1))
                         IN IF ~r.ok THEN JsonFail
                            ELSE LET e == SkipWS(s, r.end)
                                     ms == DictSet(acc, key.v.s, r.v)
                                 IN IF At(s, e) = "}" THEN JsonOk(PyDict(ms), e + 1)
                                    ELSE IF At(s, e) = ","
                                         THEN ObjectMembers(s, SkipWS(s, e + 1), ms)
                                    ELSE JsonFail

ScanOnce(s, i) ==
    IF At(s, i) = "\"" THEN ScanString(s, i + 1, <<>>)
    ELSE IF At(s, i) = "{" THEN JSONObject(s, i + 1)
    ELSE IF At(s, i) = "[" THEN JSONArray(s, i + 1)
    ELSE IF At(s, i) \in Digits THEN ScanNumber(s, i, 0)
    ELSE JsonFail

\* JSONDecoder.decode: one value, whitespace around it, nothing else
JsonDecode(s) ==
    LET r == ScanOnce(s, SkipWS(s, 1))
    IN IF ~r.ok THEN [ok |-> FALSE, v |-> PyNone, exc |-> "JSONDecodeError"]
       ELSE IF SkipWS(s, r.end) # Len(s) + 1
            THEN [ok |-> FALSE, v |-> PyNone, exc |-> "JSONDecodeError"]
       ELSE [ok |-> TRUE, v |-> r.v, exc |-> "none"]

\* JsonLoads that hands back an object that is not a str
JsonLoadsAnyObject(x) ==
    IF x.t = "str" THEN JsonDecode(x.s)
    ELSE [ok |-> TRUE, v |-> x, exc |-> "none"]

\* json.loads(x): x must be a str, any other object is a TypeError
JsonLoads(x) ==
    IF x.t = "str" THEN JsonDecode(x.s)
    ELSE [ok |-> FALSE, v |-> PyNone, exc |-> "TypeError"]

(***************************************************************************)
(* The regular expressions open.*close of re.findall and re.sub: leftmost  *)
(* match, '.' matches every character but the line feed, '*' is greedy.    *)
(***************************************************************************)
\* DotStarEnd where '.' matches the line feed too
DotStarEndDotAll(s, i) == Len(s) + 1

\* where '.*' stops when it starts at i: the next line feed or the end
RECURSIVE DotStarEnd(_, _)
DotStarEnd(s, i) == IF i <= Len(s) /\ s[i] # "\n" THEN DotStarEnd(s, i + 1) ELSE i

\* backtracking from q down to lo for the closing character; 0 if there is none
RECURSIVE BackTrack(_, _, _, _)
BackTrack(s, q, lo, close) ==
    IF q < lo THEN 0
    ELSE IF s[q] = close THEN q
    ELSE BackTrack(s, q - 1, lo, close)

\* the match starting at p: 0, or the index of its last character
MatchAt(s, p, open, close) ==
    IF At(s, p) # open THEN 0
    ELSE BackTrack(s, DotStarEnd(s, p + 1) - 1, p + 1, close)

\* the non-overlapping matches from position p on, as spans, left to right
RECURSIVE ReSpans(_, _, _, _)
ReSpans(s, p, open, close) ==
    IF p > Len(s) THEN <<>>
    ELSE LET q == MatchAt(s, p, open, close)
         IN IF q = 0 THEN ReSpans(s, p + 1, open, close)
            ELSE <<[from |-> p, to |-> q]>> \o ReSpans(s, q + 1, open, close)

ReFindall(open, close, s) ==
    LET spans == ReSpans(s, 1, open, close)
    IN [i \in 1..Len(spans) |-> SubSeq(s, spans[i].from, spans[i].to)]

\* re.sub(pattern, '', s)
RECURSIVE ReSubFrom(_, _, _, _)
ReSubFrom(s, p, open, close) ==
    IF p > Len(s) THEN <<>>
    ELSE LET q == MatchAt(s, p, open, close)
         IN IF q = 0 THEN <<s[p]>> \o ReSubFrom(s, p + 1, open, close)
            ELSE ReSubFrom(s, q + 1, open, close)

ReSub(open, close, s) == ReSubFrom(s, 1, open, close)

\* str.replace(c, "")
Replace(s, c) == SelectSeq(s, LAMBDA x : x # c)

\* str.strip()
RECURSIVE LStrip(_)
LStrip(s) == IF s # <<>> /\ Head(s) \in Whitespace THEN LStrip(Tail(s)) ELSE s

RECURSIVE RStrip(_)
RStrip(s) ==
    IF s # <<>> /\ s[Len(s)] \in Whitespace THEN RStrip(SubSeq(s, 1, Len(s) - 1)) ELSE s

\* Strip that leaves the trailing whitespace
StripLeading(s) == LStrip(s)

Strip(s) == RStrip(LStrip(s))

(***************************************************************************)
(* Outcomes of a call.                                                     *)
(***************************************************************************)
Pending == [status |-> "pending", val |-> PyNone, exc |-> "none"]
Returned(v) == [status |-> "returned", val |-> v, exc |-> "none"]
Raised(e) == [status |-> "raised", val |-> PyNone, exc |-> e]

\* CleanScript that forgets the '#'
CleanScriptKeepHash(response) ==
    IF response # <<>>
    THEN LET r1 == Replace(response, "*")
             r3 == ReSub("[", "]", r1)
             r4 == ReSub("(", ")", r3)
         IN Returned(PyStr(r4 \o <<" ">>))
    ELSE Returned(PyNone)

\* CleanScript that tests for emptiness after the cleaning
CleanScriptNoneWhenBlank(response) ==
    LET r1 == Replace(response, "*")
        r2 == Replace(r1, "#")
        r3 == ReSub("[", "]", r2)
        r4 == ReSub("(", ")", r3)
    IN IF r4 # <<>> THEN Returned(PyStr(r4 \o <<" ">>)) ELSE Returned(PyNone)

\* generate_script after the completion call returned `response`
CleanScript(response) ==
    IF response # <<>>
    THEN LET r1 == Replace(response, "*")
             r2 == Replace(r1, "#")
             r3 == ReSub("[", "]", r2)
             r4 == ReSub("(", ")", r3)
         IN Returned(PyStr(r4 \o <<" ">>))
    ELSE Returned(PyNone)

\* ', '.join(x) raises TypeError unless x is iterable and yields only str
JoinOk(x) ==
    \/ x.t = "str"
    \/ x.t = "dict"
    \/ x.t \in {"list", "tuple"} /\ \A i \in 1..Len(x.items) : x.items[i].t = "str"

\* the except branch of get_search_terms: findall, then json.loads of the list
FallbackParse(response) ==
    LET matches == ReFindall("[", "]", response)
    IN JsonLoads(PyList([i \in 1..Len(matches) |-> PyStr(matches[i])]))

\* get_search_terms after the completion call returned `response`
SearchTerms(response) ==
    LET direct == JsonLoads(PyStr(response))
        parsed == IF direct.ok THEN direct ELSE FallbackParse(response)
    IN [fallback |-> ~direct.ok,
        out |-> IF ~parsed.ok THEN Raised(parsed.exc)
                ELSE IF ~JoinOk(parsed.v) THEN Raised("TypeError")
                ELSE Returned(parsed.v)]

(***************************************************************************)
(* Inputs: what the callers pass and what the completion backend answers.  *)
(***************************************************************************)
Subjects == {"cats", "dogs"}
Scripts == {<<>>, <<"a", " ">>}
Amounts == 1..MaxAmount

ScriptAlphabet == {"a", "*", "#", "[", "]", "(", ")", "\n"}
ScriptResponses == Strings({<<c>> : c \in ScriptAlphabet}, MaxScriptLen)

Quoted(c) == <<"\"", c, "\"">>
TermPieces ==
    {<<"[">>, <<"]">>, Quoted("a"), <<",">> \o Quoted("b"), <<"1">>, <<"x">>, <<"\n">>,
     <<"{">> \o Quoted("a") \o <<":", "1", "}">>}
TermResponses == Strings(TermPieces, MaxTermPieces)

TextPieces == {<<" ">>, <<"\n">>, <<"a">>, <<"*", "#", "[", "b", "]", "(", "c", ")">>}
TitleResponses == Strings(TextPieces, MaxTitlePieces)
DescriptionResponses == Strings(TextPieces, MaxDescPieces)

\* answers to the keyword request of generate_metadata
KeywordResponses ==
    {<<"[">> \o Quoted("a") \o <<",">> \o Quoted("b") \o <<"]">>,
     <<"[", "]">>,
     <<"x", "[">> \o Quoted("a") \o <<"]">>,
     <<"x">>,
     <<"[", "1", "]">>,
     Quoted("a")}

Request(kind, subject, amount, script) ==
    [kind |-> kind, subject |-> subject, amount |-> amount, script |-> script]

(***************************************************************************)
(* The calls.                                                              *)
(***************************************************************************)
Init ==
    /\ fn = "none"
    /\ pc = "idle"
    /\ args = [subject |-> "", amount |-> 0, script |-> <<>>]
    /\ requests = <<>>
    /\ responses = <<>>
    /\ fallback = FALSE
    /\ title = <<>>
    /\ description = <<>>
    /\ ret = Pending

\* generate_script up to its completion request
generate_script_call(subject) ==
    /\ pc = "idle"
    /\ fn' = "generate_script"
    /\ args' = [subject |-> subject, amount |-> 0, script |-> <<>>]
    /\ requests' = <<Request("script", subject, 0, <<>>)>>
    /\ pc' = "script_await"
    /\ UNCHANGED <<responses, fallback, title, description, ret>>

\* generate_script from the answer of the backend to its return
generate_script_return(answers) ==
    /\ pc = "script_await"
    /\ \E response \in answers :
          /\ responses' = Append(responses, response)
          /\ ret' = CleanScript(response)
    /\ pc' = "done"
    /\ UNCHANGED <<fn, args, requests, fallback, title, description>>

\* get_search_terms up to its completion request
get_search_terms_call(subject, amount, script) ==
    /\ pc = "idle"
    /\ fn' = "get_search_terms"
    /\ args' = [subject |-> subject, amount |-> amount, script |-> script]
    /\ requests' = <<Request("terms", subject, amount, script)>>
    /\ pc' = "terms_await"
    /\ UNCHANGED <<responses, fallback, title, description, ret>>

\* get_search_terms from the answer of the backend to its return; when
\* generate_metadata is the caller, its return statement follows
get_search_terms_return(answers) ==
    /\ pc = "terms_await"
    /\ \E response \in answers :
          /\ responses' = Append(responses, response)
          /\ LET st == SearchTerms(response)
             IN /\ fallback' = st.fallback
                /\ ret' = IF fn = "generate_metadata" /\ st.out.status = "returned"
                          THEN Returned(PyTuple(<<PyStr(title), PyStr(description),
                                                  st.out.val>>))
                          ELSE st.out
    /\ pc' = "done"
    /\ UNCHANGED <<fn, args, requests, title, description>>

\* generate_metadata up to the completion request for the title
generate_metadata_call(subject, script) ==
    /\ pc = "idle"
    /\ fn' = "generate_metadata"
    /\ args' = [subject |-> subject, amount |-> 0, script |-> script]
    /\ requests' = <<Request("title", subject, 0, <<>>)>>
    /\ pc' = "title_await"
    /\ UNCHANGED <<responses, fallback, title, description, ret>>

\* generate_metadata from the title answer to the description request
generate_metadata_title(answers) ==
    /\ pc = "title_await"
    /\ \E response \in answers :
          /\ responses' = Append(responses, response)
          /\ title' = Strip(response)
    /\ requests' = Append(requests, Request("description", args.subject, 0, args.script))
    /\ pc' = "description_await"
    /\ UNCHANGED <<fn, args, fallback, description, ret>>

KeywordAmount == 6

\* generate_metadata from the description answer into get_search_terms
generate_metadata_description(answers) ==
    /\ pc = "description_await"
    /\ \E response \in answers :
          /\ responses' = Append(responses, response)
          /\ description' = Strip(response)
    /\ requests' = Append(requests, Request("terms", args.subject, KeywordAmount, args.script))
    /\ pc' = "terms_await"
    /\ UNCHANGED <<fn, args, fallback, title, ret>>

\* completion_raises where generate_metadata catches the failure and returns
\* what it has
completion_raises_partial ==
    /\ pc \in {"script_await", "terms_await", "title_await", "description_await"}
    /\ ret' = IF fn = "generate_metadata"
              THEN Returned(PyTuple(<<PyStr(title), PyStr(description), PyList(<<>>)>>))
              ELSE Raised("CompletionError")
    /\ pc' = "done"
    /\ UNCHANGED <<fn, args, requests, responses, fallback, title, description>>

\* g4f.ChatCompletion.create raises: nothing catches it
completion_raises ==
    /\ pc \in {"script_await", "terms_await", "title_await", "description_await"}
    /\ ret' = Raised("CompletionError")
    /\ pc' = "done"
    /\ UNCHANGED <<fn, args, requests, responses, fallback, title, description>>

NextScript ==
    \/ \E subject \in Subjects : generate_script_call(subject)
    \/ generate_script_return(ScriptResponses)
    \/ completion_raises

NextTerms ==
    \/ \E subject \in Subjects, amount \in Amounts, script \in Scripts :
          get_search_terms_call(subject, amount, script)
    \/ get_search_terms_return(TermResponses)
    \/ completion_raises

NextMetadata ==
    \/ \E subject \in Subjects, script \in Scripts : generate_metadata_call(subject, script)
    \/ generate_metadata_title(TitleResponses)
    \/ generate_metadata_description(DescriptionResponses)
    \/ get_search_terms_return(KeywordResponses)
    \/ completion_raises

SpecScript == Init /\ [][NextScript]_vars
SpecTerms == Init /\ [][NextTerms]_vars
SpecMetadata == Init /\ [][NextMetadata]_vars

(***************************************************************************)
(* Vocabulary of the properties.                                           *)
(***************************************************************************)
Done(f) == pc = "done" /\ fn = f

\* the one-character strings a JSON string of the answers can hold
Words == {<<"a">>, <<"b">>}
\* an answer of n pieces holds at most n - 2 words between '[' and ']'
WordLists == UNION {[1..k -> Words] : k \in 0..(MaxTermPieces - 2)}

\* the compact JSON text of a list of words: ["a","b"]
RECURSIVE CommaJoin(_)
CommaJoin(xs) ==
    IF xs = <<>> THEN <<>>
    ELSE IF Len(xs) = 1 THEN <<"\"">> \o xs[1] \o <<"\"">>
    ELSE <<"\"">> \o xs[1] \o <<"\"", ",">> \o CommaJoin(Tail(xs))

ArrayText(xs) == <<"[">> \o CommaJoin(xs) \o <<"]">>

\* the text without the whitespace that lies outside double quotes
RECURSIVE DropLayout(_, _)
DropLayout(s, quoted) ==
    IF s = <<>> THEN <<>>
    ELSE IF Head(s) = "\"" THEN <<"\"">> \o DropLayout(Tail(s), ~quoted)
    ELSE IF ~quoted /\ Head(s) \in Whitespace THEN DropLayout(Tail(s), quoted)
    ELSE <<Head(s)>> \o DropLayout(Tail(s), quoted)

\* s is a well-formed JSON array holding exactly the words xs
IsArrayOf(s, xs) == DropLayout(s, FALSE) = ArrayText(xs)

WordList(xs) == PyList([i \in 1..Len(xs) |-> PyStr(xs[i])])

\* s is the array text of xs with prose on the same line around it
IsProseAround(s, xs) ==
    \E i \in 1..Len(s), j \in 1..Len(s) :
        /\ i <= j
        /\ SubSeq(s, i, j) = ArrayText(xs)
        /\ \A k \in 1..Len(s) : (k < i \/ k > j) => s[k] = "x"
        /\ j - i + 1 < Len(s)

\* some '[' is followed by a ']' on the same line
HasBracketSpan(s) ==
    \E i \in 1..Len(s), j \in 1..Len(s) :
        /\ i < j
        /\ s[i] = "["
        /\ s[j] = "]"
        /\ \A k \in i..j : s[k] # "\n"

\* two disjoint groups open...close open...close
TwoGroups(s, open, close) ==
    \E i, j, k, l \in 1..Len(s) :
        i < j /\ j < k /\ k < l /\ s[i] = open /\ s[j] = close /\ s[k] = open /\ s[l] = close

Pick(s, keep(_)) ==
    LET F[k \in 0..Len(s)] ==
            IF k = 0 THEN <<>>
            ELSE IF keep(k) THEN Append(F[k - 1], s[k]) ELSE F[k - 1]
    IN F[Len(s)]

\* s without everything from its first `open` to its last `close`
WholeCut(s, open, close) ==
    LET first == CHOOSE i \in 1..Len(s) : s[i] = open /\ \A m \in 1..(i - 1) : s[m] # open
        last == CHOOSE j \in 1..Len(s) : s[j] = close /\ \A m \in (j + 1)..Len(s) : s[m] # close
    IN SubSeq(s, 1, first - 1) \o SubSeq(s, last + 1, Len(s))

\* k lies, on its line, between an `open` and a later `close`
InLineSpan(s, k, open, close) ==
    \E i \in 1..k, j \in k..Len(s) :
        /\ i < j
        /\ s[i] = open
        /\ s[j] = close
        /\ \A m \in i..j : s[m] # "\n"

\* s without, on every line, everything from the first `open` of the line to
\* the last `close` of the line
LineCut(s, open, close) == Pick(s, LAMBDA k : ~InLineSpan(s, k, open, close))

NoMarks(s) == Pick(s, LAMBDA k : s[k] \notin {"*", "#"})

\* s without its leading and trailing whitespace, and nothing else removed
IsTrimOf(t, s) ==
    /\ \E i \in 1..(Len(s) + 1), j \in 0..Len(s) :
          /\ t = SubSeq(s, i, j)
          /\ \A k \in 1..Len(s) : (k < i \/ k > j) => s[k] \in Whitespace
    /\ t # <<>> => t[1] \notin Whitespace /\ t[Len(t)] \notin Whitespace

TermsAnswered == Done("get_search_terms") /\ Len(responses) = 1
ScriptAnswered == Done("generate_script") /\ Len(responses) = 1

(***************************************************************************)
(* C1: when the answer is not JSON but holds, on one line, a JSON array of *)
(* strings with prose around it, get_search_terms returns that array.      *)
(***************************************************************************)
C1_FallbackReturnsEmbeddedArray ==
    TermsAnswered =>
        \A xs \in WordLists :
            IsProseAround(responses[1], xs) => ret = Returned(WordList(xs))

(***************************************************************************)
(* C2: when the answer is not valid JSON and no '[' is followed by a ']'   *)
(* on the same line, get_search_terms raises; it returns nothing.          *)
(***************************************************************************)
C2_UnparsableRaises ==
    (TermsAnswered /\ ~JsonDecode(responses[1]).ok /\ ~HasBracketSpan(responses[1]))
        => ret.status = "raised"

C2_Witness ==
    /\ TermsAnswered
    /\ ~JsonDecode(responses[1]).ok
    /\ ~HasBracketSpan(responses[1])
    /\ Has(responses[1], "[")
    /\ Has(responses[1], "]")
    /\ fallback
    /\ ret.status = "raised"

(***************************************************************************)
(* C3: get_search_terms returns normally for every answer that is a valid  *)
(* JSON array, whatever the types of its elements.                         *)
(***************************************************************************)
C3_ValidArrayNeverRaises ==
    (TermsAnswered /\ JsonDecode(responses[1]).ok /\ JsonDecode(responses[1]).v.t = "list")
        => ret.status = "returned"

(***************************************************************************)
(* C4: for an answer that is a well-formed JSON array of strings (empty    *)
(* or of any length), get_search_terms returns exactly that sequence, in   *)
(* order, without the regex fallback, whatever amount and script are.      *)
(***************************************************************************)
C4_DirectParseReturnsArray ==
    TermsAnswered =>
        \A xs \in WordLists :
            IsArrayOf(responses[1], xs) => ret = Returned(WordList(xs)) /\ ~fallback

C4_Witness ==
    /\ TermsAnswered
    /\ IsArrayOf(responses[1], <<<<"a">>, <<"b">>>>)
    /\ ret = Returned(WordList(<<<<"a">>, <<"b">>>>))
    /\ args.amount # 2
    /\ args.script # <<>>

(***************************************************************************)
(* C5: generate_script returns None or a string without '*' and '#'.       *)
(***************************************************************************)
C5_NoMarksInScript ==
    (Done("generate_script") /\ ret.status = "returned")
        => \/ ret.val = PyNone
           \/ ret.val.t = "str" /\ ~Has(ret.val.s, "*") /\ ~Has(ret.val.s, "#")

C5_Witness ==
    /\ ScriptAnswered
    /\ Has(responses[1], "*")
    /\ Has(responses[1], "#")
    /\ Has(responses[1], "]")
    /\ ret.status = "returned"
    /\ ret.val.t = "str"
    /\ Len(ret.val.s) > 1

(***************************************************************************)
(* C6 as stated: with two or more disjoint [...] groups in the answer,     *)
(* everything from the first '[' of the whole string to the last ']' of    *)
(* the whole string is removed; the same for '(' and ')'.                  *)
(***************************************************************************)
C6_WholeStringCut ==
    ScriptAnswered =>
        LET text == NoMarks(responses[1])
        IN /\ (TwoGroups(text, "[", "]") /\ ~Has(text, "(") /\ ~Has(text, ")"))
                => ret = Returned(PyStr(WholeCut(text, "[", "]") \o <<" ">>))
           /\ (TwoGroups(text, "(", ")") /\ ~Has(text, "[") /\ ~Has(text, "]"))
                => ret = Returned(PyStr(WholeCut(text, "(", ")") \o <<" ">>))

(***************************************************************************)
(* C6 amended: with two or more disjoint [...] or (...) groups in the      *)
(* answer, on every line everything from the first '[' of the line to the  *)
(* last ']' of the line is removed, the text between the groups of a line  *)
(* included; line feeds and the text of other lines stay.  The same then   *)
(* holds for '(' and ')' on every line of what the bracket removal left.   *)
(***************************************************************************)
C6_LineWiseCut ==
    ScriptAnswered =>
        LET text == NoMarks(responses[1])
        IN (TwoGroups(text, "[", "]") \/ TwoGroups(text, "(", ")"))
              => ret = Returned(PyStr(LineCut(LineCut(text, "[", "]"), "(", ")") \o <<" ">>))

C6_Witness ==
    /\ ScriptAnswered
    /\ responses[1] = <<"[", "]", "a", "[", "]">>
    /\ ret = Returned(PyStr(<<" ">>))

(***************************************************************************)
(* C7: when the three completion calls answer and the third answer is a    *)
(* JSON array of strings, generate_metadata returns (title, description,   *)
(* keywords): title and description are the first and second answer with   *)
(* only the leading and trailing whitespace removed, keywords is the       *)
(* result of get_search_terms called with the subject, 6 and the script.   *)
(***************************************************************************)
C7_MetadataValues ==
    (Done("generate_metadata") /\ Len(responses) = 3)
        => \A xs \in WordLists :
              IsArrayOf(responses[3], xs) =>
                  /\ ret.status = "returned"
                  /\ ret.val.t = "tuple"
                  /\ Len(ret.val.items) = 3
                  /\ ret.val.items[1].t = "str"
                  /\ IsTrimOf(ret.val.items[1].s, responses[1])
                  /\ ret.val.items[2].t = "str"
                  /\ IsTrimOf(ret.val.items[2].s, responses[2])
                  /\ ret.val.items[3] = WordList(xs)
                  /\ requests[3] = Request("terms", args.subject, 6, args.script)

C7_Witness ==
    /\ Done("generate_metadata")
    /\ ret.status = "returned"
    /\ Len(responses) = 3
    /\ Len(ret.val.items[1].s) + 2 = Len(responses[1])
    /\ Len(ret.val.items[2].s) + 1 = Len(responses[2])
    /\ Has(ret.val.items[1].s, "*")
    /\ Has(ret.val.items[2].s, "(")
    /\ Len(ret.val.items[3].items) = 2

(***************************************************************************)
(* C8: for every string the completion call answers, generate_script       *)
(* returns without raising; it returns None exactly when the answer is     *)
(* empty, and otherwise the cleaned text followed by one space.            *)
(***************************************************************************)
C8_AbsentIffEmpty ==
    ScriptAnswered =>
        /\ ret.status = "returned"
        /\ ret.val = PyNone <=> responses[1] = <<>>
        /\ responses[1] # <<>> =>
              ret.val = PyStr(LineCut(LineCut(NoMarks(responses[1]), "[", "]"), "(", ")")
                              \o <<" ">>)

C8_Witness ==
    /\ ScriptAnswered
    /\ responses[1] # <<>>
    /\ ret = Returned(PyStr(<<" ">>))

(***************************************************************************)
(* C9: generate_metadata issues its completion requests in the order       *)
(* title, description, search terms, at most three and none twice; when a  *)
(* step fails the failure reaches the caller, no later request is issued   *)
(* and no partial result is returned.                                      *)
(***************************************************************************)
MetadataOrder == <<"title", "description", "terms">>

C9_OrderAndPropagation ==
    fn = "generate_metadata" =>
        /\ Len(requests) <= 3
        /\ \A i \in 1..Len(requests) : requests[i].kind = MetadataOrder[i]
        /\ Len(responses) <= Len(requests)
        /\ ret.status = "raised" =>
              /\ pc = "done"
              /\ ret.val = PyNone
              /\ Len(requests) = Len(responses) + (IF ret.exc = "CompletionError" THEN 1 ELSE 0)
        /\ ret.status = "returned" =>
              /\ pc = "done"
              /\ Len(responses) = 3
              /\ SearchTerms(responses[3]).out.status = "returned"
        /\ (pc = "done" /\ Len(responses) = 3 /\ SearchTerms(responses[3]).out.status = "raised")
              => ret.status = "raised"
        /\ pc = "done" => ret.status # "pending"

C9_Witness ==
    /\ Done("generate_metadata")
    /\ ret.status = "raised"
    /\ Len(requests) = 2
    /\ Len(responses) = 1

(***************************************************************************)
(* C10: whatever the answer, a value get_search_terms returns is a         *)
(* sequence whose elements are all strings.                                *)
(***************************************************************************)
C10_ReturnsListOfStrings ==
    (Done("get_search_terms") /\ ret.status = "returned")
        => ret.val.t = "list" /\ \A i \in 1..Len(ret.val.items) : ret.val.items[i].t = "str"

====
